---------------------------- MODULE Spec2Model ----------------------------
(***************************************************************************)
(* Model of the ingestion -> chunking -> embedding -> vector-retrieval     *)
(* pipeline of the exam paper generator:                                   *)
(*   - RecursiveCharacterTextSplitter (services/data_ingestion.py)         *)
(*   - GeminiEmbedder and VectorMemory (services/embedding_qdrant.py)      *)
(*   - the add-document path: chunker/chunker.py, chunker/embedder.py,     *)
(*     qdrant/schema.py, qdrant/indexer.py, api/routes_index.py and the    *)
(*     script tests/test_qdrant.py                                         *)
(* Texts are sequences of one-character strings; positions are 0-based as  *)
(* in the Python source (the character at position i is text[i + 1]).      *)
(***************************************************************************)
EXTENDS Integers, Sequences, FiniteSets, TLC

(***************************************************************************)
(* Bounds of the model.                                                    *)
(***************************************************************************)
\* longest input text of the splitter, in characters
MaxLen == 4
\* largest chunk_size; chunk_overlap ranges over 0..MaxChunkSize, so that
\* configurations with chunk_overlap >= chunk_size are among the inputs
MaxChunkSize == 3
\* most chunks in one store_document call
MaxChunks == 2
\* most chunks handed to store_document over the lifetime of an instance
MaxStored == 2
\* largest top_k of a retrieve call
MaxTopK == 2
\* most direct get_embedding calls on one embedder
MaxEmbedCalls == 5
\* most points in the doc_chunks collection
MaxIndexed == 3
\* number of threads that call store_document on one instance
MaxThreads == 2

MaxDocLen == 6

MaxTokens == 2

VARIABLES
    text,           \* split_text: the input text
    chunk_size,     \* RecursiveCharacterTextSplitter.chunk_size
    chunk_overlap,  \* RecursiveCharacterTextSplitter.chunk_overlap
    start,          \* split_text: local start
    end,            \* split_text: local end
    chunks,         \* split_text: local chunks (the fragments emitted so far)
    slices,         \* history: the slice [start, end) each iteration has cut
    iters,          \* history: number of loop iterations run
    pc,             \* "ready" (constructed), "loop" (inside while), "done"
    sklearn,        \* SKLEARN_AVAILABLE
    hasEmbedder,    \* VectorMemory has its attribute embedder
    available,      \* GeminiEmbedder.available
    client,         \* VectorMemory.client: "Uninitialized", "Client" or "None"
    hasFallback,    \* VectorMemory has its attribute _fallback_storage
    fallback_storage, \* VectorMemory._fallback_storage
    collExists,     \* backing store: the collection exists
    points,         \* backing store: the collection's points, by identifier
    initialPoints,  \* history: the points the collection held at construction
    accepted,       \* history: payloads of the upserts the store has accepted
    handed,         \* history: the entries of every store_document call
    last,           \* history: the last store_document or retrieve call
    lastEmbedding,  \* history: what the last direct get_embedding call returned
    embedCalls,     \* history: number of direct get_embedding calls
    primaryCalls,   \* history: number of those that called the primary provider
    lastCall,       \* history: inputs and attempted tiers of the last of them
    idxColl,        \* qdrant.client.client: the doc_chunks collection's configuration
    idxPoints,      \* qdrant.client.client: the points of doc_chunks, by identifier
    job,            \* add_document / test script: position and locals
    idxLast,        \* history: the last call on the add-document path
    upserted,       \* history: the points of every accepted upsert_chunks call
    threads,        \* store_document calls in progress, by thread
    ckText,         \* split_text_to_chunks: the argument text
    ckMaxTokens,    \* split_text_to_chunks: the argument max_tokens
    ckChunks,       \* split_text_to_chunks: the list it returns
    ckPc            \* split_text_to_chunks: "ready" (before the call), "done"

splitVars == <<text, chunk_size, chunk_overlap, start, end, chunks, slices, iters, pc>>

vmVars == <<sklearn, hasEmbedder, available, client, hasFallback, fallback_storage,
            collExists, points, initialPoints, accepted, handed, last, lastEmbedding,
            embedCalls, primaryCalls, lastCall>>

idxVars == <<idxColl, idxPoints, job, idxLast, upserted>>

thrVars == <<threads>>

ckVars == <<ckText, ckMaxTokens, ckChunks, ckPc>>

vars == <<splitVars, vmVars, idxVars, thrVars, ckVars>>

Min(a, b) == IF a <= b THEN a ELSE b

Max(a, b) == IF a >= b THEN a ELSE b

SetMax(S) == CHOOSE m \in S : \A x \in S : x <= m

(***************************************************************************)
(* Characters.  "a" stands for any non-blank character that is part of no  *)
(* separator, "\t" for whitespace that str.strip() removes but that no     *)
(* separator matches.                                                      *)
(***************************************************************************)
Alphabet == {"a", " ", "\n", ".", "\t"}

Whitespace == {" ", "\n", "\t"}

\* separators=["\n\n", "\n", ". ", "! ", "? ", " ", ""]
DefaultSeparators ==
    << <<"\n", "\n">>, <<"\n">>, <<".", " ">>, <<"!", " ">>, <<"?", " ">>,
       <<" ">>, <<>> >>

\* text[s:e] for 0 <= s, e <= len(text)
Slice(t, s, e) == SubSeq(t, s + 1, e)

RECURSIVE LStrip(_)
LStrip(s) ==
    IF s # <<>> /\ Head(s) \in Whitespace THEN LStrip(Tail(s)) ELSE s

RECURSIVE RStrip(_)
RStrip(s) ==
    IF s # <<>> /\ s[Len(s)] \in Whitespace
    THEN RStrip(SubSeq(s, 1, Len(s) - 1))
    ELSE s

\* str.strip()
Strip(s) == RStrip(LStrip(s))

\* text[i:i+len(sep)] == sep
MatchAt(t, sep, i) ==
    /\ i + Len(sep) <= Len(t)
    /\ \A k \in 1..Len(sep) : t[i + k] = sep[k]

\* a mutant of RFind: an occurrence only has to begin before e
RFindStartOnly(t, sep, s, e) ==
    LET hits == {i \in s..(e - 1) : MatchAt(t, sep, i)}
    IN  IF hits = {} THEN -1 ELSE SetMax(hits)

\* text.rfind(sep, s, e) for a non-empty sep: the highest position i with
\* s <= i and i + len(sep) <= e at which sep occurs, or -1
RFind(t, sep, s, e) ==
    LET hits == {i \in s..(e - Len(sep)) : MatchAt(t, sep, i)}
    IN  IF hits = {} THEN -1 ELSE SetMax(hits)

\* a mutant of BreakEnd: the separators are tried from the last one to the
\* first one
RECURSIVE BreakEndLowestFirst(_, _, _, _, _)
BreakEndLowestFirst(t, seps, s, e, k) ==
    IF k > Len(seps) THEN e
    ELSE LET sep == seps[Len(seps) + 1 - k]
             pos == IF sep # <<>> THEN RFind(t, sep, s, e) ELSE -1
         IN  IF sep # <<>> /\ pos # -1 /\ pos > s
             THEN pos + Len(sep)
             ELSE BreakEndLowestFirst(t, seps, s, e, k + 1)

\* the for-loop over self.separators, from the k-th separator on: the end
\* of the slice that starts at s and whose candidate end is e
RECURSIVE BreakEnd(_, _, _, _, _)
BreakEnd(t, seps, s, e, k) ==
    IF k > Len(seps) THEN e
    ELSE LET sep == seps[k]
             pos == IF sep # <<>> THEN RFind(t, sep, s, e) ELSE -1
         IN  IF sep # <<>> /\ pos # -1 /\ pos > s
             THEN pos + Len(sep)
             ELSE BreakEnd(t, seps, s, e, k + 1)

\* end = min(start + self.chunk_size, len(text))
CandidateEnd(t, s, cs) == Min(s + cs, Len(t))

\* the end of the slice cut at cursor s
SliceEnd(t, s, cs) ==
    LET e == CandidateEnd(t, s, cs)
    IN  IF e < Len(t) THEN BreakEnd(t, DefaultSeparators, s, e, 1) ELSE e

\* a mutant of NextStart: the next slice starts one character late
NextStartLate(e, ov) == Max(0, e - ov + 1)

\* a mutant of NextStart: the overlap is not taken off
NextStartNoOverlap(e, ov) == Max(0, e)

\* start = end - self.chunk_overlap; if start < 0: start = 0
NextStart(e, ov) == Max(0, e - ov)

\* a mutant of EmitChunk: the trimmed slice is appended even when empty
EmitChunkAlways(cks, t, s, e) == Append(cks, Strip(Slice(t, s, e)))

\* chunk = text[start:end].strip(); if chunk: chunks.append(chunk)
EmitChunk(cks, t, s, e) ==
    LET chunk == Strip(Slice(t, s, e))
    IN  IF chunk # <<>> THEN Append(cks, chunk) ELSE cks

(***************************************************************************)
(* Inputs of the splitter.                                                 *)
(***************************************************************************)
RECURSIVE TextsOfLen(_)
TextsOfLen(n) ==
    IF n = 0 THEN {<<>>}
    ELSE {Append(t, c) : t \in TextsOfLen(n - 1), c \in Alphabet}

Texts == UNION {TextsOfLen(n) : n \in 0..MaxLen}

SmallInputs ==
    {[text |-> t, chunk_size |-> cs, chunk_overlap |-> ov] :
        t \in Texts, cs \in 1..MaxChunkSize, ov \in 0..MaxChunkSize}

\* the scenario of the specification: a 1000-character text without
\* whitespace, chunk_size = 300, chunk_overlap = 50
ScenarioInputs ==
    {[text |-> [i \in 1..1000 |-> "a"], chunk_size |-> 300, chunk_overlap |-> 50]}

SplitInputs == SmallInputs \cup ScenarioInputs

\* a run with more iterations than the text has cursor positions has
\* returned to a cursor it held before, and the loop is deterministic
IterCap(t) == Len(t) + 1

(***************************************************************************)
(* RecursiveCharacterTextSplitter                                          *)
(***************************************************************************)
\* __init__ stores its arguments; the state after construction
SplitInit ==
    /\ \E inp \in SplitInputs :
          /\ text = inp.text
          /\ chunk_size = inp.chunk_size
          /\ chunk_overlap = inp.chunk_overlap
    /\ start = 0
    /\ end = 0
    /\ chunks = <<>>
    /\ slices = <<>>
    /\ iters = 0
    /\ pc = "ready"

\* split_text up to the while loop: if not text: return []
SplitTextBegin ==
    /\ pc = "ready"
    /\ pc' = IF text = <<>> THEN "done" ELSE "loop"
    /\ start' = 0
    /\ chunks' = <<>>
    /\ UNCHANGED <<text, chunk_size, chunk_overlap, end, slices, iters>>

\* one iteration of the while loop of split_text
SplitTextIter ==
    /\ pc = "loop"
    /\ iters <= IterCap(text)
    /\ IF start < Len(text)
       THEN LET e == SliceEnd(text, start, chunk_size)
            IN  /\ end' = e
                /\ chunks' = EmitChunk(chunks, text, start, e)
                /\ slices' = Append(slices, [start |-> start, end |-> e])
                /\ start' = NextStart(e, chunk_overlap)
                /\ iters' = iters + 1
                /\ pc' = IF e >= Len(text) THEN "done" ELSE "loop"
       ELSE /\ pc' = "done"
            /\ UNCHANGED <<start, end, chunks, slices, iters>>
    /\ UNCHANGED <<text, chunk_size, chunk_overlap>>

(***************************************************************************)
(* GeminiEmbedder                                                          *)
(***************************************************************************)
\* VectorParams(size=512, ...): the dimension of the exam_chunks collection
CollectionSize == 512

\* TfidfVectorizer(max_features=512, ...)
TfidfMaxFeatures == 512

\* "Pad or truncate to 512 dimensions"
TfidfDim == 512

\* np.random.rand(512)
RandomDim == 512

\* Chunk and query texts: a name and the number of distinct terms the TF-IDF
\* vectorizer finds in the text (none in a text of stop words only, more
\* than max_features in a long one).
ChunkTexts ==
    {[name |-> "t0", terms |-> 0], [name |-> "t1", terms |-> 3],
     [name |-> "t2", terms |-> 600]}

\* What genai.embed_content does in one call: it raises, or it returns a
\* vector whose length the provider decides (768 for models/embedding-001).
PrimaryOutcomes ==
    {[raises |-> TRUE, dim |-> 0]} \cup
    {[raises |-> FALSE, dim |-> d] : d \in {CollectionSize, 768}}

\* raised: the call raised instead of returning a vector
NoEmbedding == [raised |-> FALSE, tier |-> "none", dim |-> 0, of |-> "none"]

\* np.random.rand(512).tolist() with np bound
RandomEmbedding(txt) ==
    [raised |-> FALSE, tier |-> "random", dim |-> RandomDim, of |-> txt.name]

\* a mutant of RandomWithoutSklearn: np is the module's numpy
RandomWithModuleNumpy(txt) == RandomEmbedding(txt)

\* "return np.random.rand(512).tolist()" under "if not SKLEARN_AVAILABLE:".
\* The "import numpy as np" further down in get_tfidf_embedding makes np a
\* local name of the whole function, not yet bound on this line: the
\* expression raises UnboundLocalError, outside every try block.
RandomWithoutSklearn(txt) ==
    [raised |-> TRUE, tier |-> "none", dim |-> 0, of |-> txt.name]

\* vectorizer.fit_transform([text]) raises ValueError on an empty vocabulary
TfidfRaises(txt) == txt.terms = 0

\* length after "if len(embedding) < 512: np.pad(...) else: embedding[:512]"
TfidfLength(n) == IF n < TfidfDim THEN n + (TfidfDim - n) ELSE Min(n, TfidfDim)

\* get_tfidf_embedding
GetTfidfEmbedding(sk, txt) ==
    IF ~sk THEN RandomWithoutSklearn(txt)
    ELSE IF TfidfRaises(txt) THEN RandomEmbedding(txt)
    ELSE [raised |-> FALSE,
          tier |-> "tfidf",
          dim  |-> TfidfLength(Min(txt.terms, TfidfMaxFeatures)),
          of   |-> txt.name]

\* get_embedding; primary is what genai.embed_content does if it is called
GetEmbedding(avail, sk, txt, primary) ==
    IF avail /\ ~primary.raises
    THEN [raised |-> FALSE, tier |-> "primary", dim |-> primary.dim, of |-> txt.name]
    ELSE GetTfidfEmbedding(sk, txt)

\* a mutant of TfidfAttempts: a failed TF-IDF computation is tried again
TfidfAttemptsRetry(sk, txt) ==
    IF ~sk THEN <<"random">>
    ELSE IF TfidfRaises(txt) THEN <<"tfidf", "tfidf", "random">>
    ELSE <<"tfidf">>

\* the tiers get_tfidf_embedding attempts, in order: the random vector
\* without scikit-learn, else the TF-IDF computation and, in its handler,
\* the random vector
TfidfAttempts(sk, txt) ==
    IF ~sk THEN <<"random">>
    ELSE IF TfidfRaises(txt) THEN <<"tfidf", "random">>
    ELSE <<"tfidf">>

\* the tiers get_embedding attempts, in order
TierAttempts(avail, sk, txt, primary) ==
    IF avail /\ ~primary.raises THEN <<"primary">>
    ELSE IF avail THEN <<"primary">> \o TfidfAttempts(sk, txt)
    ELSE TfidfAttempts(sk, txt)

\* a mutant of AvailableAfterCall: a failed primary call switches the flag off
AvailableAfterFailure(avail, primary) == avail /\ ~primary.raises

\* self.available after get_embedding: the method never assigns it
AvailableAfterCall(avail, primary) == avail

NoEmbedCall ==
    [txt |-> [name |-> "none", terms |-> 0], primary |-> [raises |-> FALSE, dim |-> 0],
     tiers |-> <<>>]

\* GeminiEmbedder.__init__: self.available
EmbedderAvailable(hasKey, genaiLib, configureOk) == hasKey /\ genaiLib /\ configureOk

(***************************************************************************)
(* VectorMemory and its backing store                                      *)
(***************************************************************************)
\* a mutant of Prefix: one element more than asked for
PrefixOneMore(s, n) == SubSeq(s, 1, Min(n + 1, Len(s)))

\* s[:n]
Prefix(s, n) == SubSeq(s, 1, Min(n, Len(s)))

RECURSIVE SeqsOfLen(_, _)
SeqsOfLen(S, n) ==
    IF n = 0 THEN {<<>>}
    ELSE {Append(q, x) : q \in SeqsOfLen(S, n - 1), x \in S}

SeqsUpTo(S, n) == UNION {SeqsOfLen(S, k) : k \in 0..n}

\* the chunk texts and the metadata handed to store_document
StoreTexts == {t \in ChunkTexts : t.name \in {"t0", "t1"}}

Docs == {"d1"}

\* {"text": chunk, **metadata, "chunk_id": i}
Payload(chunk, doc, i) == [text |-> chunk.name, doc |-> doc, chunk_id |-> i]

\* the payloads of the points of one store_document call
PointPayloads(cks, doc) == [i \in 1..Len(cks) |-> Payload(cks[i], doc, i - 1)]

\* {"text": chunk, "metadata": {**metadata, "chunk_id": i}}
FallbackEntry(chunk, doc, i) ==
    [text |-> chunk.name, metadata |-> [doc |-> doc, chunk_id |-> i]]

\* the entries the loops over enumerate(chunks) append to _fallback_storage
FallbackEntries(cks, doc) == [i \in 1..Len(cks) |-> FallbackEntry(cks[i], doc, i - 1)]

\* PointStruct(id=idx, ...): the identifier of the idx-th point of a call
PointId(idx) == idx

\* a mutant of PointList: the vectors are paired with the chunks in
\* reverse order
PointListReversed(cks, doc, vecs) ==
    [i \in 1..Min(Len(vecs), Len(cks)) |->
        [id |-> PointId(i - 1), vector |-> vecs[Len(vecs) + 1 - i],
         payload |-> Payload(cks[i], doc, i - 1)]]

\* the list "points" of store_document, built over enumerate(zip(vectors,
\* chunks)) and handed to client.upsert
PointList(cks, doc, vecs) ==
    [i \in 1..Min(Len(vecs), Len(cks)) |->
        [id |-> PointId(i - 1), vector |-> vecs[i], payload |-> Payload(cks[i], doc, i - 1)]]

\* the points store_document builds: identifier |-> (vector, payload)
BuildPoints(cks, doc, vecs) ==
    LET list == PointList(cks, doc, vecs)
    IN  [id \in {list[i].id : i \in 1..Len(list)} |->
            LET i == SetMax({j \in 1..Len(list) : list[j].id = id})
            IN  [vector |-> list[i].vector, payload |-> list[i].payload]]

\* client.upsert: a point replaces the stored point of the same identifier
Upsert(pts, new) ==
    [id \in DOMAIN pts \cup DOMAIN new |-> IF id \in DOMAIN new THEN new[id] ELSE pts[id]]

\* a mutant of DimensionsAgree: the store takes vectors of any dimension
DimensionsUnchecked(vecs) == TRUE

\* the store rejects vectors that are not of the collection's dimension
DimensionsAgree(vecs) == \A i \in 1..Len(vecs) : vecs[i].dim = CollectionSize

\* client.search(limit=top_k): the payloads of min(top_k, n) distinct points,
\* in the order of their scores (any order: scores are not modelled)
SearchResults(pts, k) ==
    {[i \in 1..Len(q) |-> pts[q[i]].payload] :
        q \in {r \in SeqsOfLen(DOMAIN pts, Min(k, Cardinality(DOMAIN pts))) :
                 \A i, j \in 1..Len(r) : i # j => r[i] # r[j]}}

\* a mutant of ClientAfterInit: the handler does not set self.client
ClientAfterInitUnset(ok) == IF ok THEN "Client" ELSE "Uninitialized"

\* self.client after __init__: the client, or None set by the handler
ClientAfterInit(ok) == IF ok THEN "Client" ELSE "None"

\* a mutant of FallbackRead: the attribute is read without the hasattr guard
FallbackReadUnguarded(hasFb, fb, k) ==
    IF hasFb THEN [raised |-> FALSE, value |-> Prefix(fb, k)]
    ELSE [raised |-> TRUE, value |-> <<>>]

\* self._fallback_storage[:top_k] if hasattr(self, '_fallback_storage') else []
FallbackRead(hasFb, fb, k) ==
    [raised |-> FALSE, value |-> IF hasFb THEN Prefix(fb, k) ELSE <<>>]

\* a mutant of FallbackAppend: the chunks replace the stored ones
FallbackAppendReset(hasFb, fb, entries) ==
    [raised |-> ~hasFb, value |-> IF hasFb THEN entries ELSE fb]

\* self._fallback_storage.append(...) for each chunk, in degraded mode;
\* AttributeError if the attribute does not exist
FallbackAppend(hasFb, fb, entries) ==
    [raised |-> ~hasFb, value |-> IF hasFb THEN fb \o entries ELSE fb]

\* a mutant of HandlerCatches: the handler catches nothing
HandlerCatchesNothing(exc) == FALSE

\* "except Exception as e:" of store_document and retrieve
HandlerCatches(exc) == TRUE

\* path: what answered a retrieve, the store's search ("ranked") or the
\* fallback storage ("fallback"); mismatch: store_document has built a vector
\* that is not of the collection's dimension; n: the number of chunks handed
\* to store_document; sent: the points it has handed to client.upsert
NoCall ==
    [op |-> "none", top_k |-> 0, raised |-> FALSE, clientCalls |-> 0, path |-> "none",
     mismatch |-> FALSE, result |-> <<>>, n |-> 0, sent |-> <<>>]

\* the collections a backing store may hold when an instance is constructed
InitialPointSets ==
    {<<>>} \cup
    {[id \in {0} |-> [vector |-> [raised |-> FALSE, tier |-> "tfidf", dim |-> CollectionSize, of |-> "t1"],
                      payload |-> Payload([name |-> "t1", terms |-> 3], "d0", 0)]]}

VMInit ==
    /\ sklearn \in BOOLEAN
    /\ hasEmbedder = FALSE
    /\ available = FALSE
    /\ client = "Uninitialized"
    /\ hasFallback = FALSE
    /\ fallback_storage = <<>>
    /\ collExists \in BOOLEAN
    /\ points \in (IF collExists THEN InitialPointSets ELSE {<<>>})
    /\ initialPoints = points
    /\ accepted = <<>>
    /\ handed = <<>>
    /\ last = NoCall
    /\ lastEmbedding = NoEmbedding
    /\ embedCalls = 0
    /\ primaryCalls = 0
    /\ lastCall = NoEmbedCall

\* VectorMemory.__init__.  ctorOk: QdrantClient(url=...) returns; embAvail:
\* what GeminiEmbedder.__init__ sets self.available to; getOk:
\* get_collection reaches the store; createOk: create_collection reaches it.
DoConstruct(ctorOk, embAvail, getOk, createOk) ==
    /\ client = "Uninitialized"
    /\ LET found   == ctorOk /\ getOk /\ collExists
           created == ctorOk /\ ~found /\ createOk /\ ~collExists
           ok      == found \/ created
       IN  /\ client' = ClientAfterInit(ok)
           /\ hasEmbedder' = ctorOk
           /\ available' = (ctorOk /\ embAvail)
           /\ hasFallback' = ~ok
           /\ fallback_storage' = <<>>
           /\ collExists' = (collExists \/ created)
    /\ UNCHANGED <<sklearn, points, initialPoints, accepted, handed, last, lastEmbedding,
                   embedCalls, primaryCalls, lastCall>>

\* VectorMemory.store_document(chunks, metadata).  prim[i]: what the primary
\* provider does for the i-th chunk; upsertOk: the store is reachable.
DoStoreDocument(cks, doc, prim, upsertOk) ==
    /\ client # "Uninitialized"
    /\ Len(handed) + Len(cks) <= MaxStored
    /\ handed' = handed \o FallbackEntries(cks, doc)
    /\ IF client = "None"
       THEN LET r == FallbackAppend(hasFallback, fallback_storage, FallbackEntries(cks, doc))
            IN  /\ fallback_storage' = r.value
                /\ last' = [NoCall EXCEPT !.op = "store", !.raised = r.raised,
                                          !.n = Len(cks)]
                /\ UNCHANGED <<hasFallback, points, accepted>>
       ELSE LET vecs == [i \in 1..Len(cks) |->
                            GetEmbedding(available, sklearn, cks[i], prim[i])]
                new  == BuildPoints(cks, doc, vecs)
                embRaised == \E i \in 1..Len(vecs) : vecs[i].raised
                exc  == embRaised \/ ~(upsertOk /\ DimensionsAgree(vecs))
                wrongDim == \E i \in 1..Len(vecs) :
                               ~vecs[i].raised /\ vecs[i].dim # CollectionSize
            IN  /\ last' = [NoCall EXCEPT !.op = "store",
                                          !.raised = (exc /\ ~HandlerCatches(exc)),
                                          !.clientCalls = IF embRaised THEN 0 ELSE 1,
                                          !.mismatch = (~embRaised /\ wrongDim),
                                          !.n = Len(cks),
                                          !.sent = IF embRaised THEN <<>>
                                                   ELSE PointList(cks, doc, vecs)]
                /\ IF ~exc
                   THEN /\ points' = Upsert(points, new)
                        /\ accepted' = accepted \o PointPayloads(cks, doc)
                        /\ UNCHANGED <<hasFallback, fallback_storage>>
                   ELSE /\ hasFallback' = (hasFallback \/ HandlerCatches(exc))
                        /\ fallback_storage' =
                              IF HandlerCatches(exc) THEN FallbackEntries(cks, doc)
                              ELSE fallback_storage
                        /\ UNCHANGED <<points, accepted>>
    /\ UNCHANGED <<sklearn, hasEmbedder, available, client, collExists, initialPoints,
                   lastEmbedding, embedCalls, primaryCalls, lastCall>>

\* VectorMemory.retrieve(query, top_k).  primary: what the primary provider
\* does for the query; searchOk: the store is reachable.
DoRetrieve(query, k, primary, searchOk) ==
    /\ client # "Uninitialized"
    /\ IF client = "None"
       THEN LET r == FallbackRead(hasFallback, fallback_storage, k)
            IN  last' = [NoCall EXCEPT !.op = "retrieve", !.top_k = k, !.path = "fallback",
                                       !.raised = r.raised, !.result = r.value]
       ELSE LET vec == GetEmbedding(available, sklearn, query, primary)
                exc == vec.raised \/ ~(searchOk /\ vec.dim = CollectionSize)
                fb  == FallbackRead(hasFallback, fallback_storage, k)
            IN  IF ~exc
                THEN \E res \in SearchResults(points, k) :
                        last' = [NoCall EXCEPT !.op = "retrieve", !.top_k = k,
                                               !.clientCalls = 1, !.path = "ranked",
                                               !.result = res]
                ELSE last' = [NoCall EXCEPT !.op = "retrieve", !.top_k = k,
                                            !.clientCalls = IF vec.raised THEN 0 ELSE 1,
                                            !.path = "fallback",
                                            !.raised = (~HandlerCatches(exc) \/ fb.raised),
                                            !.result = IF HandlerCatches(exc) THEN fb.value
                                                       ELSE <<>>]
    /\ UNCHANGED <<sklearn, hasEmbedder, available, client, hasFallback, fallback_storage,
                   collExists, points, initialPoints, accepted, handed, lastEmbedding,
                   embedCalls, primaryCalls, lastCall>>

(***************************************************************************)
(* A GeminiEmbedder used on its own.                                       *)
(***************************************************************************)
\* the state before GeminiEmbedder(api_key) is called
EmbedInit ==
    /\ sklearn \in BOOLEAN
    /\ hasEmbedder = FALSE
    /\ available = FALSE
    /\ lastEmbedding = NoEmbedding
    /\ embedCalls = 0
    /\ primaryCalls = 0
    /\ lastCall = NoEmbedCall
    /\ client = "Uninitialized" /\ hasFallback = FALSE /\ fallback_storage = <<>>
    /\ collExists = FALSE /\ points = <<>> /\ initialPoints = <<>>
    /\ accepted = <<>> /\ handed = <<>> /\ last = NoCall

\* GeminiEmbedder.__init__
DoEmbedderConstruct(hasKey, genaiLib, configureOk) ==
    /\ ~hasEmbedder
    /\ hasEmbedder' = TRUE
    /\ available' = EmbedderAvailable(hasKey, genaiLib, configureOk)
    /\ UNCHANGED <<sklearn, lastEmbedding, embedCalls, primaryCalls, lastCall, client,
                   hasFallback,
                   fallback_storage, collExists, points, initialPoints, accepted, handed,
                   last>>

\* GeminiEmbedder.get_embedding(text)
DoEmbedCall(txt, primary) ==
    /\ hasEmbedder
    /\ embedCalls < MaxEmbedCalls
    /\ embedCalls' = embedCalls + 1
    /\ primaryCalls' = IF available THEN primaryCalls + 1 ELSE primaryCalls
    /\ lastEmbedding' = GetEmbedding(available, sklearn, txt, primary)
    /\ lastCall' = [txt |-> txt, primary |-> primary,
                    tiers |-> TierAttempts(available, sklearn, txt, primary)]
    /\ available' = AvailableAfterCall(available, primary)
    /\ UNCHANGED <<sklearn, hasEmbedder, client, hasFallback, fallback_storage,
                   collExists, points, initialPoints, accepted, handed, last>>

(***************************************************************************)
(* The add-document path: chunker, embedder, schema, indexer, route and    *)
(* the test script, all on the module-level in-memory client of            *)
(* qdrant/client.py.                                                       *)
(***************************************************************************)
\* VECTOR_SIZE = 384
VECTOR_SIZE == 384

\* EMBED_DIM = 384
EMBED_DIM == 384

\* def split_text_to_chunks(text, max_tokens=512)
DefaultMaxTokens == 512

\* text.split("\n\n"): cur is the paragraph read so far
RECURSIVE SplitParagraphs(_, _)
SplitParagraphs(t, cur) ==
    IF t = <<>> THEN <<cur>>
    ELSE IF Len(t) >= 2 /\ t[1] = "\n" /\ t[2] = "\n"
         THEN <<cur>> \o SplitParagraphs(SubSeq(t, 3, Len(t)), <<>>)
         ELSE SplitParagraphs(Tail(t), Append(cur, Head(t)))

\* para.split(): the maximal runs of non-whitespace characters
RECURSIVE SplitWords(_, _)
SplitWords(p, cur) ==
    LET word == IF cur = <<>> THEN <<>> ELSE <<cur>>
    IN  IF p = <<>> THEN word
        ELSE IF Head(p) \in Whitespace THEN word \o SplitWords(Tail(p), <<>>)
        ELSE SplitWords(Tail(p), Append(cur, Head(p)))

\* " ".join(words)
RECURSIVE JoinWords(_)
JoinWords(ws) ==
    IF ws = <<>> THEN <<>>
    ELSE IF Len(ws) = 1 THEN ws[1]
    ELSE ws[1] \o <<" ">> \o JoinWords(Tail(ws))

\* for i in range(0, len(words), max_tokens): " ".join(words[i:i+max_tokens])
ParagraphChunks(words, max_tokens) ==
    [k \in 1..((Len(words) + max_tokens - 1) \div max_tokens) |->
        JoinWords(SubSeq(words, (k - 1) * max_tokens + 1, Min(k * max_tokens, Len(words))))]

\* the words of the paragraphs from the k-th one on, in order
RECURSIVE WordsFrom(_, _)
WordsFrom(paras, k) ==
    IF k > Len(paras) THEN <<>>
    ELSE SplitWords(paras[k], <<>>) \o WordsFrom(paras, k + 1)

\* a mutant of ChunksFrom: the words of all paragraphs are cut as one list
ChunksAcrossParagraphs(paras, max_tokens, k) ==
    ParagraphChunks(WordsFrom(paras, k), max_tokens)

\* the loop over paragraphs, from the k-th paragraph on
RECURSIVE ChunksFrom(_, _, _)
ChunksFrom(paras, max_tokens, k) ==
    IF k > Len(paras) THEN <<>>
    ELSE ParagraphChunks(SplitWords(paras[k], <<>>), max_tokens)
            \o ChunksFrom(paras, max_tokens, k + 1)

\* split_text_to_chunks(text, max_tokens)
SplitTextToChunks(t, max_tokens) == ChunksFrom(SplitParagraphs(t, <<>>), max_tokens, 1)

\* the characters of the chunker's inputs: two word characters, a blank and
\* a line break
ChunkerAlphabet == {"a", "b", " ", "\n"}

RECURSIVE DocsOfLen(_)
DocsOfLen(n) ==
    IF n = 0 THEN {<<>>}
    ELSE {Append(t, c) : t \in DocsOfLen(n - 1), c \in ChunkerAlphabet}

\* the arguments of split_text_to_chunks: every short text with every small
\* positive max_tokens and with the default, and the text of the test script
ChunkerInputs ==
    {[text |-> t, max_tokens |-> m] :
        t \in UNION {DocsOfLen(n) : n \in 0..MaxDocLen}
                \cup {<<"a", " ", "b", "\n", "\n", "c", "\n">>},
        m \in (1..MaxTokens) \cup {DefaultMaxTokens}}

\* before the call: the arguments are chosen
ChunkerInit ==
    /\ \E inp \in ChunkerInputs :
          /\ ckText = inp.text
          /\ ckMaxTokens = inp.max_tokens
    /\ ckChunks = <<>>
    /\ ckPc = "ready"

ChunkerIdle ==
    /\ ckText = <<>> /\ ckMaxTokens = DefaultMaxTokens /\ ckChunks = <<>>
    /\ ckPc = "ready"

\* chunks = split_text_to_chunks(text, max_tokens)
DoSplitTextToChunks ==
    /\ ckPc = "ready"
    /\ ckChunks' = SplitTextToChunks(ckText, ckMaxTokens)
    /\ ckPc' = "done"
    /\ UNCHANGED <<ckText, ckMaxTokens>>

\* np.random.rand(EMBED_DIM).tolist(): the n-th vector drawn.  dir names its
\* direction; two draws never give equal or parallel vectors.
RandomVector(n) == [dim |-> EMBED_DIM, dir |-> n]

\* embed_chunks(chunks): one vector per chunk, after drawn earlier vectors
EmbedChunks(cks, drawn) == [i \in 1..Len(cks) |-> RandomVector(drawn + i)]

NoCollection == [exists |-> FALSE, size |-> 0, distance |-> "none"]

\* a mutant of CollectionAfterCreate: an absent collection is not created
CollectionAfterCreateAbsent(coll) == coll

\* create_collection: the configuration of doc_chunks afterwards
CollectionAfterCreate(coll) ==
    IF ~coll.exists
    THEN [exists |-> TRUE, size |-> VECTOR_SIZE, distance |-> "Cosine"]
    ELSE coll

\* a mutant of PointsAfterCreate: recreate_collection is called in any case
PointsAfterRecreate(coll, pts) == <<>>

\* create_collection: the points of doc_chunks afterwards;
\* recreate_collection, called for an absent collection only, makes an empty one
PointsAfterCreate(coll, pts) == IF ~coll.exists THEN <<>> ELSE pts

\* a mutant of IndexPointId: the identifier is the position in the call
IndexPointIdByPosition(stored, i) == i

\* id=str(uuid.uuid4()) of the i-th point of a call made after stored
\* identifiers have been drawn: identifiers never repeat
IndexPointId(stored, i) == stored + i

\* {"doc_id": doc_id, "chunk_text": chunk, "chunk_id": i}
IndexPayload(doc, chunk, i) == [doc_id |-> doc, chunk_text |-> chunk, chunk_id |-> i]

\* the points upsert_chunks builds from zip(chunks, embeddings), in order
IndexPointList(cks, embs, doc, stored) ==
    [i \in 1..Min(Len(cks), Len(embs)) |->
        [id |-> IndexPointId(stored, i), vector |-> embs[i],
         payload |-> IndexPayload(doc, cks[i], i - 1)]]

\* the same points by identifier; of two points with one identifier the
\* later one counts
IndexPoints(list) ==
    [id \in {list[i].id : i \in 1..Len(list)} |->
        LET i == SetMax({j \in 1..Len(list) : list[j].id = id})
        IN  [vector |-> list[i].vector, payload |-> list[i].payload]]

\* client.upsert is accepted: the collection exists and every vector is of
\* its dimension
IndexUpsertAccepted(coll, list) ==
    coll.exists /\ \A i \in 1..Len(list) : list[i].vector.dim = coll.size

\* client.search(collection_name="doc_chunks", query_vector=q, limit=k): the
\* identifiers of min(k, n) distinct points in the order of their cosine
\* scores.  A point whose vector is the query vector has the highest score;
\* the order of the other points is not modelled.
SearchRanked(pts, q, k) ==
    LET same == {id \in DOMAIN pts : pts[id].vector = q}
    IN  {r \in SeqsOfLen(DOMAIN pts, Min(k, Cardinality(DOMAIN pts))) :
            /\ \A i, j \in 1..Len(r) : i # j => r[i] # r[j]
            /\ \A i \in 1..Len(r) :
                  r[i] \notin same => same \subseteq {r[j] : j \in 1..(i - 1)}}

\* what a search returns: identifier and payload of each point found
ScoredPoints(pts, r) == [i \in 1..Len(r) |-> [id |-> r[i], payload |-> pts[r[i]].payload]]

\* the sample text of tests/test_qdrant.py: two paragraphs and a final
\* newline ("a", "b" and "c" stand for words)
TestText == <<"a", " ", "b", "\n", "\n", "c", "\n">>

\* the texts extract_text hands to add_document
IndexTexts == {<<>>, <<"a">>, <<" ", "\n", "\n">>, TestText}

IdleJob ==
    [pc |-> "idle", path |-> "none", text |-> <<>>, chunks |-> <<>>, embeddings |-> <<>>,
     doc_id |-> "none"]

\* report: the chunk count add_document returns; query and result: of a search
NoIndexCall ==
    [op |-> "none", raised |-> FALSE, report |-> 0,
     query |-> RandomVector(0), limit |-> 0, result |-> <<>>]

\* the module-level client of qdrant/client.py is a new in-memory store
IndexInit ==
    /\ idxColl = NoCollection
    /\ idxPoints = <<>>
    /\ job = IdleJob
    /\ idxLast = NoIndexCall
    /\ upserted = <<>>

\* add_document and the test script up to create_collection:
\* chunks = split_text_to_chunks(text); embeddings = embed_chunks(chunks)
DoSplitEmbed(path, t, doc) ==
    /\ job.pc = "idle"
    /\ LET cks == SplitTextToChunks(t, DefaultMaxTokens)
       IN  /\ Len(upserted) + Len(cks) <= MaxIndexed
           /\ job' = [pc |-> "create", path |-> path, text |-> t, chunks |-> cks,
                      embeddings |-> EmbedChunks(cks, Len(upserted)), doc_id |-> doc]
    /\ idxLast' = [NoIndexCall EXCEPT !.op = "embed_chunks"]
    /\ UNCHANGED <<idxColl, idxPoints, upserted>>

\* schema.create_collection()
DoCreateCollection ==
    /\ idxColl' = CollectionAfterCreate(idxColl)
    /\ idxPoints' = PointsAfterCreate(idxColl, idxPoints)
    /\ idxLast' = [NoIndexCall EXCEPT !.op = "create_collection"]
    /\ UNCHANGED upserted

\* create_collection() called by add_document or the test script
DoJobCreateCollection ==
    /\ job.pc = "create"
    /\ job' = [job EXCEPT !.pc = "upsert"]
    /\ DoCreateCollection

\* create_collection() called on its own
DoEnsureCollection ==
    /\ job.pc = "idle"
    /\ UNCHANGED job
    /\ DoCreateCollection

\* upsert_chunks(chunks, embeddings, doc_id) called by add_document or the
\* test script; an exception of client.upsert ends the caller
DoJobUpsert ==
    /\ job.pc = "upsert"
    /\ LET list == IndexPointList(job.chunks, job.embeddings, job.doc_id, Len(upserted))
           ok   == IndexUpsertAccepted(idxColl, list)
       IN  /\ idxPoints' = IF ok THEN Upsert(idxPoints, IndexPoints(list)) ELSE idxPoints
           /\ upserted' = IF ok THEN upserted \o list ELSE upserted
           /\ job' = IF ok THEN [job EXCEPT !.pc = "finish"] ELSE IdleJob
           /\ idxLast' = [NoIndexCall EXCEPT !.op = "upsert_chunks", !.raised = ~ok]
    /\ UNCHANGED idxColl

\* client.search(collection_name="doc_chunks", query_vector=q, limit=k)
DoSearch(q, k) ==
    IF idxColl.exists /\ q.dim = idxColl.size
    THEN \E r \in SearchRanked(idxPoints, q, k) :
            idxLast' = [NoIndexCall EXCEPT !.op = "search", !.query = q, !.limit = k,
                                           !.result = ScoredPoints(idxPoints, r)]
    ELSE idxLast' = [NoIndexCall EXCEPT !.op = "search", !.query = q, !.limit = k,
                                        !.raised = TRUE]

\* the end of add_document (return {"doc_id": ..., "chunks": len(chunks)})
\* and of the test script (search with embeddings[0], limit=1)
DoJobFinish ==
    /\ job.pc = "finish"
    /\ job' = IdleJob
    /\ IF job.path = "add_document"
       THEN idxLast' = [NoIndexCall EXCEPT !.op = "add_document",
                                           !.report = Len(job.chunks)]
       ELSE DoSearch(job.embeddings[1], 1)
    /\ UNCHANGED <<idxColl, idxPoints, upserted>>

\* a search on its own, with a stored vector or with a vector never stored
DoQuery(q, k) ==
    /\ job.pc = "idle"
    /\ DoSearch(q, k)
    /\ UNCHANGED <<idxColl, idxPoints, job, upserted>>

(***************************************************************************)
(* store_document calls of several threads on one VectorMemory.  A step is *)
(* what one thread does without another thread running in between: the    *)
(* try block with its client calls, one assignment or one list.append.     *)
(***************************************************************************)
Threads == 1..MaxThreads

\* the metadata a thread hands to store_document
ThreadDoc(t) == IF t = 1 THEN "d1" ELSE IF t = 2 THEN "d2" ELSE "d3"

\* wrote: the entries the call has appended to the fallback storage
IdleThread == [pc |-> "idle", cks |-> <<>>, i |-> 0, wrote |-> <<>>]

ThreadsIdle == threads = [t \in Threads |-> IdleThread]

\* store_document(chunks, metadata) is entered: "if self.client is None:"
DoThreadCall(t, cks) ==
    /\ client # "Uninitialized"
    /\ threads[t].pc = "idle"
    /\ threads' = [threads EXCEPT ![t] =
                      [pc |-> IF client = "None" THEN "append" ELSE "try",
                       cks |-> cks, i |-> 0, wrote |-> <<>>]]
    /\ UNCHANGED <<hasFallback, fallback_storage, points>>

\* the try block: the embeddings, the points and client.upsert
DoThreadTry(t, prim, upsertOk) ==
    /\ threads[t].pc = "try"
    /\ LET cks  == threads[t].cks
           vecs == [i \in 1..Len(cks) |-> GetEmbedding(available, sklearn, cks[i], prim[i])]
           exc  == \/ \E i \in 1..Len(vecs) : vecs[i].raised
                   \/ ~(upsertOk /\ DimensionsAgree(vecs))
       IN  /\ points' = IF exc THEN points
                        ELSE Upsert(points, BuildPoints(cks, ThreadDoc(t), vecs))
           /\ threads' = [threads EXCEPT ![t].pc =
                             IF ~exc THEN "returned"
                             ELSE IF HandlerCatches(exc) THEN "handler" ELSE "raised"]
    /\ UNCHANGED <<hasFallback, fallback_storage>>

\* the handler's "self._fallback_storage = []"
DoThreadReset(t) ==
    /\ threads[t].pc = "handler"
    /\ hasFallback' = TRUE
    /\ fallback_storage' = <<>>
    /\ threads' = [threads EXCEPT ![t].pc = "append"]
    /\ UNCHANGED points

\* one pass of "for i, chunk in enumerate(chunks):
\* self._fallback_storage.append(...)", or the end of the loop
DoThreadAppend(t) ==
    /\ threads[t].pc = "append"
    /\ LET th == threads[t]
       IN  IF th.i < Len(th.cks)
           THEN LET entry == FallbackEntry(th.cks[th.i + 1], ThreadDoc(t), th.i)
                    r     == FallbackAppend(hasFallback, fallback_storage, <<entry>>)
                IN  /\ fallback_storage' = r.value
                    /\ threads' = [threads EXCEPT ![t] =
                                      IF r.raised THEN [th EXCEPT !.pc = "raised"]
                                      ELSE [th EXCEPT !.i = th.i + 1,
                                                      !.wrote = Append(th.wrote, entry)]]
           ELSE /\ threads' = [threads EXCEPT ![t].pc = "returned"]
                /\ UNCHANGED fallback_storage
    /\ UNCHANGED <<hasFallback, points>>

(***************************************************************************)
(* Specifications.  The splitter, the embedder, the vector memory and the  *)
(* add-document path are independent objects; each specification runs some *)
(* of them and leaves the others as they start.                            *)
(***************************************************************************)
SplitIdle ==
    /\ text = <<>> /\ chunk_size = 1 /\ chunk_overlap = 0
    /\ start = 0 /\ end = 0 /\ chunks = <<>> /\ slices = <<>> /\ iters = 0
    /\ pc = "ready"

VMIdle ==
    /\ sklearn = TRUE /\ hasEmbedder = FALSE /\ available = FALSE
    /\ client = "Uninitialized" /\ hasFallback = FALSE /\ fallback_storage = <<>>
    /\ collExists = FALSE /\ points = <<>> /\ initialPoints = <<>>
    /\ accepted = <<>> /\ handed = <<>> /\ last = NoCall /\ lastEmbedding = NoEmbedding
    /\ embedCalls = 0 /\ primaryCalls = 0 /\ lastCall = NoEmbedCall

\* the variables of a VectorMemory that the steps of a thread leave alone
thrFrame ==
    <<sklearn, hasEmbedder, available, client, collExists, initialPoints, accepted,
      handed, last, lastEmbedding, embedCalls, primaryCalls, lastCall>>

SplitBegin == SplitTextBegin /\ UNCHANGED <<vmVars, idxVars, thrVars, ckVars>>

SplitIter == SplitTextIter /\ UNCHANGED <<vmVars, idxVars, thrVars, ckVars>>

Construct ==
    /\ \E ctorOk, embAvail, getOk, createOk \in BOOLEAN :
          DoConstruct(ctorOk, embAvail, getOk, createOk)
    /\ UNCHANGED <<splitVars, idxVars, thrVars, ckVars>>

StoreDocument ==
    /\ \E cks \in SeqsUpTo(StoreTexts, MaxChunks), doc \in Docs, upsertOk \in BOOLEAN :
          \E prim \in [1..Len(cks) -> PrimaryOutcomes] :
             DoStoreDocument(cks, doc, prim, upsertOk)
    /\ UNCHANGED <<splitVars, idxVars, thrVars, ckVars>>

Retrieve ==
    /\ \E query \in StoreTexts, k \in 0..MaxTopK, primary \in PrimaryOutcomes,
          searchOk \in BOOLEAN :
          DoRetrieve(query, k, primary, searchOk)
    /\ UNCHANGED <<splitVars, idxVars, thrVars, ckVars>>

EmbedderConstruct ==
    /\ \E hasKey, genaiLib, configureOk \in BOOLEAN :
          DoEmbedderConstruct(hasKey, genaiLib, configureOk)
    /\ UNCHANGED <<splitVars, idxVars, thrVars, ckVars>>

EmbedCall ==
    /\ \E txt \in ChunkTexts, primary \in PrimaryOutcomes : DoEmbedCall(txt, primary)
    /\ UNCHANGED <<splitVars, idxVars, thrVars, ckVars>>

\* add_document(file, doc_id) up to create_collection
AddDocumentBegin ==
    /\ \E t \in IndexTexts : DoSplitEmbed("add_document", t, "doc_1")
    /\ UNCHANGED <<splitVars, vmVars, thrVars, ckVars>>

\* tests/test_qdrant.py up to create_collection
TestScriptBegin ==
    /\ DoSplitEmbed("test_qdrant", TestText, "doc_test")
    /\ UNCHANGED <<splitVars, vmVars, thrVars, ckVars>>

JobCreateCollection == DoJobCreateCollection /\ UNCHANGED <<splitVars, vmVars, thrVars, ckVars>>

JobUpsert == DoJobUpsert /\ UNCHANGED <<splitVars, vmVars, thrVars, ckVars>>

JobFinish == DoJobFinish /\ UNCHANGED <<splitVars, vmVars, thrVars, ckVars>>

EnsureCollection == DoEnsureCollection /\ UNCHANGED <<splitVars, vmVars, thrVars, ckVars>>

Query ==
    /\ \E q \in {upserted[i].vector : i \in 1..Len(upserted)} \cup {RandomVector(0)},
          k \in 1..MaxTopK :
          DoQuery(q, k)
    /\ UNCHANGED <<splitVars, vmVars, thrVars, ckVars>>

ThreadCall ==
    /\ \E t \in Threads, cks \in SeqsUpTo(StoreTexts, MaxChunks) : DoThreadCall(t, cks)
    /\ UNCHANGED <<splitVars, idxVars, thrFrame, ckVars>>

ThreadTry ==
    /\ \E t \in Threads, upsertOk \in BOOLEAN :
          \E prim \in [1..Len(threads[t].cks) -> PrimaryOutcomes] :
             DoThreadTry(t, prim, upsertOk)
    /\ UNCHANGED <<splitVars, idxVars, thrFrame, ckVars>>

ThreadReset ==
    /\ \E t \in Threads : DoThreadReset(t)
    /\ UNCHANGED <<splitVars, idxVars, thrFrame, ckVars>>

ThreadAppend ==
    /\ \E t \in Threads : DoThreadAppend(t)
    /\ UNCHANGED <<splitVars, idxVars, thrFrame, ckVars>>

CallSplitTextToChunks ==
    DoSplitTextToChunks /\ UNCHANGED <<splitVars, vmVars, idxVars, thrVars>>

SplitNext == SplitBegin \/ SplitIter

VMNext == Construct \/ StoreDocument \/ Retrieve

EmbedNext == EmbedderConstruct \/ EmbedCall

\* every path that ensures a collection and upserts into it
IndexNext ==
    \/ AddDocumentBegin \/ TestScriptBegin \/ JobCreateCollection \/ JobUpsert
    \/ JobFinish \/ EnsureCollection \/ Query \/ Construct

ThreadNext == Construct \/ ThreadCall \/ ThreadTry \/ ThreadReset \/ ThreadAppend

ChunkerNext == CallSplitTextToChunks

InitSplit == SplitInit /\ VMIdle /\ IndexInit /\ ThreadsIdle /\ ChunkerIdle

Init == VMInit /\ SplitIdle /\ IndexInit /\ ThreadsIdle /\ ChunkerIdle

InitEmbed == EmbedInit /\ SplitIdle /\ IndexInit /\ ThreadsIdle /\ ChunkerIdle

InitIndex == IndexInit /\ VMInit /\ SplitIdle /\ ThreadsIdle /\ ChunkerIdle

InitThreads == VMInit /\ SplitIdle /\ IndexInit /\ ThreadsIdle /\ ChunkerIdle

InitChunker == ChunkerInit /\ SplitIdle /\ VMIdle /\ IndexInit /\ ThreadsIdle

SpecSplit == InitSplit /\ [][SplitNext]_vars

Spec == Init /\ [][VMNext]_vars

SpecEmbed == InitEmbed /\ [][EmbedNext]_vars

SpecIndex == InitIndex /\ [][IndexNext]_vars

SpecThreads == InitThreads /\ [][ThreadNext]_vars

SpecChunker == InitChunker /\ [][ChunkerNext]_vars

(***************************************************************************)
(* Properties of split_text.                                               *)
(***************************************************************************)
\* chunk_size > chunk_overlap >= 0
ValidConfig == chunk_size > chunk_overlap /\ chunk_overlap >= 0

SliceText(sl) == Slice(text, sl.start, sl.end)

\* the slices whose trimmed text is not empty: one per fragment, in order
EmittedSlices == SelectSeq(slices, LAMBDA sl : Strip(SliceText(sl)) # <<>>)

Drop(s, n) == SubSeq(s, Min(n, Len(s)) + 1, Len(s))

\* number of characters the i-th slice of sls shares with its predecessor
Shared(sls, i) == IF i = 1 THEN 0 ELSE Max(0, sls[i - 1].end - sls[i].start)

\* pieces[1..i], each after the first without the part it shares with its
\* predecessor, concatenated; sls[i] is the slice pieces[i] was cut from
RECURSIVE Reconstruct(_, _, _)
Reconstruct(pieces, sls, i) ==
    IF i = 0 THEN <<>>
    ELSE Reconstruct(pieces, sls, i - 1) \o Drop(pieces[i], Shared(sls, i))

SliceTexts == [i \in 1..Len(slices) |-> SliceText(slices[i])]

\* no separator has moved the end of a slice
NoAdjustment ==
    \A i \in 1..Len(slices) :
        slices[i].end = CandidateEnd(text, slices[i].start, chunk_size)

\* some non-empty separator occurs in text[s:e] at a position greater than s
SeparatorFound(t, s, e) ==
    \E k \in 1..Len(DefaultSeparators) :
        /\ DefaultSeparators[k] # <<>>
        /\ RFind(t, DefaultSeparators[k], s, e) > s

\* no separator has been found in any slice that stops short of the text's end
NoSeparatorMatch ==
    \A i \in 1..Len(slices) :
        LET e == CandidateEnd(text, slices[i].start, chunk_size)
        IN  e < Len(text) => ~SeparatorFound(text, slices[i].start, e)

\* no slice begins or ends with whitespace, so trimming changes nothing
NoTrimming == \A i \in 1..Len(slices) : Strip(SliceText(slices[i])) = SliceText(slices[i])

\* s[-n:] and s[:n]
LastN(s, n) == SubSeq(s, Len(s) - n + 1, Len(s))

\* C1: for chunk_size > chunk_overlap >= 0 split_text terminates.  The loop
\* is deterministic in its cursor, which ranges over 0..len(text)-1 while the
\* loop runs, so it terminates exactly when it never runs more than len(text)
\* iterations: a longer run has returned to a cursor it held before.
C1_SplitTerminates == ValidConfig => iters <= Len(text)

\* C8 as stated: the returned fragments, each after the first without the
\* part it shares with its predecessor, concatenate to the input text.
C8_FragmentsReconstructText ==
    (pc = "done" /\ ValidConfig) =>
        /\ Len(chunks) = Len(EmittedSlices)
        /\ Reconstruct(chunks, EmittedSlices, Len(chunks)) = text

\* C8 amended: the untrimmed slices text[start:end] of the iterations, each
\* after the first without the part it shares with its predecessor,
\* concatenate to the input text, and the fragments are these slices with
\* leading and trailing whitespace trimmed, whitespace-only slices left out.
C8_SlicesReconstructText ==
    (pc = "done" /\ ValidConfig) =>
        /\ Reconstruct(SliceTexts, slices, Len(slices)) = text
        /\ Len(chunks) = Len(EmittedSlices)
        /\ \A i \in 1..Len(chunks) : chunks[i] = Strip(SliceText(EmittedSlices[i]))

\* a returned run with overlapping slices, one of them cut at a separator and
\* trimmed
C8_Witness ==
    /\ pc = "done" /\ ValidConfig /\ chunk_overlap > 0
    /\ Len(slices) >= 2
    /\ ~NoAdjustment
    /\ ~NoTrimming
    /\ Len(chunks) >= 2

\* the slice starts are exactly chunk_size - chunk_overlap apart
SlicesEvenlySpaced ==
    \A i \in 1..(Len(slices) - 1) :
        slices[i + 1].start - slices[i].start = chunk_size - chunk_overlap

\* the tail of each piece is the head of the next, chunk_overlap characters
ShareOverlap(pieces) ==
    \A i \in 1..(Len(pieces) - 1) :
        /\ Len(pieces[i]) >= chunk_overlap
        /\ Len(pieces[i + 1]) >= chunk_overlap
        /\ LastN(pieces[i], chunk_overlap) = Prefix(pieces[i + 1], chunk_overlap)

IsScenario == Len(text) = 1000 /\ chunk_size = 300 /\ chunk_overlap = 50

\* C9 as stated: without separator adjustment the slices are exactly
\* chunk_size - chunk_overlap apart, consecutive fragments share exactly
\* chunk_overlap characters, and the 1000/300/50 scenario gives 4 fragments.
C9_FragmentsShareOverlap ==
    (pc = "done" /\ ValidConfig /\ NoSeparatorMatch) =>
        /\ SlicesEvenlySpaced
        /\ ShareOverlap(chunks)
        /\ IsScenario => Len(chunks) = 4

\* C9 amended: without separator adjustment the slices are exactly
\* chunk_size - chunk_overlap apart and consecutive slices share exactly
\* chunk_overlap characters; so do consecutive fragments when no slice begins
\* or ends with whitespace; the 1000/300/50 scenario on a text without
\* whitespace gives 4 fragments.
C9_SlicesShareOverlap ==
    (pc = "done" /\ ValidConfig /\ NoAdjustment) =>
        /\ SlicesEvenlySpaced
        /\ ShareOverlap(SliceTexts)
        /\ \A i \in 1..(Len(slices) - 1) : slices[i].end - slices[i + 1].start = chunk_overlap
        /\ NoTrimming => (chunks = SliceTexts /\ ShareOverlap(chunks))
        /\ (IsScenario /\ NoTrimming) => Len(chunks) = 4

\* the scenario has returned
C9_Witness ==
    /\ pc = "done" /\ IsScenario /\ NoAdjustment /\ NoTrimming
    /\ Len(slices) = 4

\* C10: a splitter with chunk_overlap >= chunk_size is rejected before any
\* segmentation step: it never enters the loop and never emits a fragment.
C10_MisconfigurationRejected ==
    chunk_overlap >= chunk_size => (pc # "loop" /\ iters = 0 /\ chunks = <<>>)

\* number of leading whitespace characters str.strip() removes from s
LeadingBlanks(s) == Len(s) - Len(LStrip(s))

\* C11: every iteration cuts a slice text[start:end] with
\* start < end <= min(start + chunk_size, len(text)), also when a separator
\* has moved the end, and every fragment is a contiguous part of the input
\* text that lies inside the slice it was cut from, so it has at most
\* chunk_size characters.
C11_FragmentsAreBoundedSlices ==
    /\ \A i \in 1..Len(slices) :
          /\ 0 <= slices[i].start
          /\ slices[i].start < slices[i].end
          /\ slices[i].end <= CandidateEnd(text, slices[i].start, chunk_size)
          /\ slices[i].end <= slices[i].start + chunk_size
    /\ Len(chunks) = Len(EmittedSlices)
    /\ \A i \in 1..Len(chunks) :
          LET sl == EmittedSlices[i]
              a  == sl.start + LeadingBlanks(SliceText(sl))
          IN  /\ chunks[i] = Slice(text, a, a + Len(chunks[i]))
              /\ a + Len(chunks[i]) <= sl.end
              /\ Len(chunks[i]) <= chunk_size

\* a returned run in which a separator has moved the end of a slice ahead of
\* start + chunk_size and a fragment is shorter than its slice
C11_Witness ==
    /\ pc = "done"
    /\ Len(chunks) >= 2
    /\ \E i \in 1..Len(slices) :
          /\ slices[i].end < CandidateEnd(text, slices[i].start, chunk_size)
          /\ slices[i].start + chunk_size < Len(text)
    /\ \E i \in 1..Len(chunks) :
          Len(chunks[i]) < EmittedSlices[i].end - EmittedSlices[i].start

\* C12: no fragment is empty, nor empty after trimming whitespace, for any
\* input and configuration; an empty input never enters the loop and yields
\* zero fragments.
C12_NoEmptyFragment ==
    /\ \A i \in 1..Len(chunks) : chunks[i] # <<>> /\ Strip(chunks[i]) # <<>>
    /\ text = <<>> => (chunks = <<>> /\ slices = <<>> /\ pc # "loop")

\* a returned run that has cut a whitespace-only slice and emitted fragments
\* for the other slices only
C12_Witness ==
    /\ pc = "done"
    /\ chunks # <<>>
    /\ Len(chunks) < Len(slices)
    /\ \E i \in 1..Len(slices) : Strip(SliceText(slices[i])) = <<>>

(***************************************************************************)
(* Properties of GeminiEmbedder and VectorMemory.                          *)
(***************************************************************************)
\* C2: get_embedding returns a vector of the target dimension (512, the
\* size of the exam_chunks collection), whichever tier served it.
C2_EmbeddingHasTargetDimension ==
    lastEmbedding # NoEmbedding => lastEmbedding.dim = CollectionSize

\* C3: on an instance constructed without a reachable backing store every
\* store_document and retrieve call returns normally, makes no call to the
\* client and is served from the fallback storage: the storage holds the
\* entries of every store_document call, in order, and retrieve returns its
\* first top_k entries.
C3_DegradedServedFromFallback ==
    client = "None" =>
        /\ hasFallback
        /\ fallback_storage = handed
        /\ ~last.raised
        /\ last.clientCalls = 0
        /\ last.op = "retrieve" => last.result = Prefix(fallback_storage, last.top_k)

\* a degraded instance after two store_document calls and a retrieve
C3_Witness ==
    /\ client = "None"
    /\ Len(fallback_storage) >= 2
    /\ fallback_storage[2].metadata.chunk_id = 0
    /\ last.op = "retrieve"
    /\ last.result # <<>>

\* C4: construction takes the instance from Uninitialized to Connected or to
\* Degraded, no call takes it back to Uninitialized, and no call takes a
\* Degraded instance to Connected.
C4_DegradedNeverConnected ==
    [][/\ client = "Uninitialized" => client' \in {"Client", "None"}
       /\ client = "None" => client' = "None"
       /\ client = "Client" => client' # "Uninitialized"]_vars

\* a degraded instance that has served a store_document call
C4_Witness == client = "None" /\ last.op = "store" /\ fallback_storage # <<>>

\* C5: store_document and retrieve return normally in every mode, whatever
\* the embedding provider, the upsert and the search do.
C5_CallsReturnNormally == last.op # "none" => ~last.raised

\* a connected instance whose upsert has failed and whose search then failed:
\* the collection is empty and retrieve has answered from the fallback storage
C5_Witness ==
    /\ client = "Client"
    /\ points = <<>>
    /\ hasFallback
    /\ last.op = "retrieve"
    /\ last.clientCalls = 1
    /\ last.result # <<>>

\* C6: retrieve on an instance into which nothing has been stored (empty
\* collection, empty or never-created fallback storage) returns an empty
\* sequence and does not raise.
C6_RetrieveOnEmptyIsEmpty ==
    (last.op = "retrieve" /\ handed = <<>> /\ points = <<>>) =>
        (last.result = <<>> /\ ~last.raised)

\* retrieve on a connected instance that never created its fallback storage
C6_Witness ==
    /\ last.op = "retrieve"
    /\ handed = <<>>
    /\ points = <<>>
    /\ client = "Client"
    /\ ~hasFallback
    /\ last.top_k > 0

\* C7: points of different store_document calls never replace one another:
\* on a connected instance whose collection started empty and whose upserts
\* were all accepted, the collection holds one point per chunk handed in, and
\* every such chunk is still stored.
C7_PointIdsUnique ==
    (client = "Client" /\ initialPoints = <<>> /\ Len(accepted) = Len(handed)) =>
        /\ Cardinality(DOMAIN points) = Len(accepted)
        /\ \A i \in 1..Len(accepted) :
              \E id \in DOMAIN points : points[id].payload = accepted[i]

\* C15: a store_document call with an empty chunk list leaves the points of
\* the collection, the contents of the fallback storage and the mode as they
\* were before the call.  (handed grows by one entry per chunk of a call, so
\* a store_document step that leaves it unchanged had no chunks.)
C15_EmptyStoreIsNoOp ==
    [][(last'.op = "store" /\ handed' = handed) =>
          /\ points' = points
          /\ fallback_storage' = fallback_storage
          /\ client' = client]_vars

\* C16: get_embedding returns a vector and does not raise, whatever the
\* availability of the primary provider and of scikit-learn and whatever the
\* primary call and the TF-IDF computation do.
C16_GetEmbeddingNeverRaises == embedCalls > 0 => ~lastEmbedding.raised

ResultFields(r) == UNION {DOMAIN r[i] : i \in 1..Len(r)}

\* C20: a retrieve answered from the fallback storage (the first top_k
\* entries inserted) is flagged to the caller: what it returns carries a
\* status field.
C20_DegradedResultFlagged ==
    (last.op = "retrieve" /\ last.path = "fallback") =>
        "status" \in ResultFields(last.result)

(***************************************************************************)
(* Properties of the add-document path and of concurrent calls.            *)
(***************************************************************************)
\* C13: ensuring a collection is create-if-absent.  create_collection on
\* an absent doc_chunks collection makes it, empty, with dimension 384 and
\* the cosine metric; on an existing one it leaves configuration and points
\* as they are, however many upserts and queries have run in between.
\* Constructing a VectorMemory on a store that has the collection leaves the
\* collection and its points as they are.
C13_EnsureCollectionIdempotent ==
    [][/\ (idxLast'.op = "create_collection" /\ idxColl.exists) =>
              (idxColl' = idxColl /\ idxPoints' = idxPoints)
       /\ (idxLast'.op = "create_collection" /\ ~idxColl.exists) =>
              /\ idxColl' = [exists |-> TRUE, size |-> VECTOR_SIZE, distance |-> "Cosine"]
              /\ idxPoints' = <<>>
       /\ (client = "Uninitialized" /\ collExists) =>
              (collExists' /\ points' = points)]_vars

\* create_collection has run on a doc_chunks collection that holds the
\* points of two upserts, and a VectorMemory has been constructed on a
\* store whose collection held a point
C13_Witness ==
    /\ idxLast.op = "create_collection"
    /\ job.pc = "idle"
    /\ Cardinality(DOMAIN idxPoints) >= 2
    /\ \E i \in 1..Len(upserted) : upserted[i].payload.doc_id = "doc_test"
    /\ \E i \in 1..Len(upserted) : upserted[i].payload.doc_id = "doc_1"
    /\ client = "Client"
    /\ points # <<>>

\* C14: a search whose query vector is the vector some point was upserted
\* with returns that point first, with the payload it was upserted with,
\* whatever other points have been stored before or after it.
C14_SelfQueryReturnsPointFirst ==
    (idxLast.op = "search" /\ ~idxLast.raised) =>
        \A i \in 1..Len(upserted) :
            upserted[i].vector = idxLast.query =>
                /\ idxLast.result # <<>>
                /\ idxLast.result[1].id = upserted[i].id
                /\ idxLast.result[1].payload = upserted[i].payload

\* a search with the vector of the point stored last, in a collection that
\* held another point before it
C14_Witness ==
    /\ idxLast.op = "search"
    /\ Len(upserted) >= 2
    /\ idxLast.query = upserted[Len(upserted)].vector
    /\ idxLast.result # <<>>
    /\ idxLast.result[1].payload = upserted[Len(upserted)].payload
    /\ upserted[1].payload.doc_id # upserted[Len(upserted)].payload.doc_id

\* C18: once every thread's store_document call has returned, the fallback
\* storage contains every entry that a call has appended to it.
C18_NoLostFallbackUpdate ==
    (\A t \in Threads : threads[t].pc = "returned") =>
        \A t \in Threads : \A i \in 1..Len(threads[t].wrote) :
            \E j \in 1..Len(fallback_storage) : fallback_storage[j] = threads[t].wrote[i]

\* C19: upsert_chunks runs only on a doc_chunks collection that exists, in
\* add_document and in the test script, and a connected VectorMemory, the
\* only one whose store_document upserts, has a collection that exists.
C19_UpsertAfterEnsure ==
    [][/\ (job.pc = "upsert" /\ job'.pc # "upsert") => idxColl.exists
       /\ idxLast'.op = "upsert_chunks" => (idxColl.exists /\ ~idxLast'.raised)
       /\ client' = "Client" => collExists']_vars

\* both paths have upserted into doc_chunks, and a VectorMemory has been
\* constructed connected on a store that had no collection
C19_Witness ==
    /\ idxLast.op = "upsert_chunks"
    /\ \E i \in 1..Len(upserted) : upserted[i].payload.doc_id = "doc_test"
    /\ \E i \in 1..Len(upserted) : upserted[i].payload.doc_id = "doc_1"
    /\ client = "Client"
    /\ collExists
    /\ initialPoints = <<>>

(***************************************************************************)
(* Properties of the tiers of get_embedding.                               *)
(***************************************************************************)
TierRank(tier) == IF tier = "primary" THEN 1 ELSE IF tier = "tfidf" THEN 2 ELSE 3

Attempted(tier) == \E i \in 1..Len(lastCall.tiers) : lastCall.tiers[i] = tier

\* the primary provider was not available to the last call or failed in it
PrimaryOut == ~available \/ lastCall.primary.raises

\* C21: the tiers a get_embedding call attempts are in the order primary,
\* TF-IDF, random, each at most once; the primary tier is attempted exactly
\* when the embedder is available, the TF-IDF tier only when the primary
\* tier was unavailable or failed, the random tier only when moreover
\* scikit-learn is unavailable or the TF-IDF computation failed; the vector
\* returned is that of the last tier attempted.
C21_TiersInOrder ==
    embedCalls > 0 =>
        /\ lastCall.tiers # <<>>
        /\ \A i \in 1..(Len(lastCall.tiers) - 1) :
              TierRank(lastCall.tiers[i]) < TierRank(lastCall.tiers[i + 1])
        /\ Attempted("primary") <=> available
        /\ Attempted("tfidf") => (PrimaryOut /\ sklearn)
        /\ Attempted("random") => (PrimaryOut /\ (~sklearn \/ TfidfRaises(lastCall.txt)))
        /\ ~lastEmbedding.raised =>
              lastEmbedding.tier = lastCall.tiers[Len(lastCall.tiers)]

\* a call in which the primary provider and then the TF-IDF computation
\* failed
C21_Witness ==
    /\ embedCalls > 0
    /\ lastCall.tiers = <<"primary", "tfidf", "random">>
    /\ lastEmbedding.tier = "random"

\* C22: with scikit-learn available get_embedding never returns a randomly
\* sampled vector.
C22_RandomOnlyWithoutLibrary == (embedCalls > 0 /\ sklearn) => lastEmbedding.tier # "random"

\* C28: no get_embedding call changes the availability flag; an embedder
\* constructed unavailable never calls the primary provider, an available
\* one calls it in every get_embedding call.
C28_AvailabilityFixed ==
    [][hasEmbedder =>
          /\ available' = available
          /\ primaryCalls' - primaryCalls =
                 IF available THEN embedCalls' - embedCalls ELSE 0]_vars

\* an available embedder whose primary provider has been called in each of
\* three calls and has failed in the last one
C28_Witness ==
    /\ hasEmbedder /\ available
    /\ embedCalls >= 3
    /\ primaryCalls = embedCalls
    /\ lastCall.primary.raises
    /\ lastEmbedding.tier # "primary"

(***************************************************************************)
(* Further properties of VectorMemory.                                     *)
(***************************************************************************)
\* C23: the fallback storage is append-only: every step keeps the entries it
\* held, at their positions, and adds new entries at the end only.
C23_FallbackAppendOnly ==
    [][/\ Len(fallback_storage') >= Len(fallback_storage)
       /\ SubSeq(fallback_storage', 1, Len(fallback_storage)) = fallback_storage]_vars

\* C24: in degraded mode retrieve returns the first min(top_k, n) entries of
\* the fallback storage, in insertion order, whatever the query, never more
\* than top_k entries, and it does not raise when fewer than top_k exist.
C24_DegradedReturnsFirstTopK ==
    (client = "None" /\ last.op = "retrieve") =>
        /\ ~last.raised
        /\ Len(last.result) = Min(last.top_k, Len(fallback_storage))
        /\ Len(last.result) <= last.top_k
        /\ \A i \in 1..Len(last.result) : last.result[i] = fallback_storage[i]

\* a degraded retrieve with top_k = 1 on a fallback storage of two entries
C24_Witness ==
    /\ client = "None"
    /\ last.op = "retrieve"
    /\ last.top_k = 1
    /\ Len(fallback_storage) = 2
    /\ last.result = <<fallback_storage[1]>>

\* the chunks of the last store_document call, as recorded when handed in
LastFragments == SubSeq(handed, Len(handed) - last.n + 1, Len(handed))

\* C26: the list store_document hands to client.upsert has one point per
\* fragment, in order: the i-th point carries the vector computed for the
\* i-th fragment, that fragment's text and chunk index i (from 0).
C26_PointsMatchFragments ==
    (last.op = "store" /\ last.clientCalls = 1) =>
        /\ Len(last.sent) = last.n
        /\ \A i \in 1..Len(last.sent) :
              /\ i <= Len(LastFragments)
              /\ last.sent[i].vector.of = LastFragments[i].text
              /\ last.sent[i].payload.text = LastFragments[i].text
              /\ last.sent[i].payload.chunk_id = i - 1

\* a call with two different fragments has handed its points to the store
C26_Witness ==
    /\ last.op = "store"
    /\ last.clientCalls = 1
    /\ Len(last.sent) = 2
    /\ last.sent[1].payload.text # last.sent[2].payload.text
    /\ last.sent[1].vector.tier # last.sent[2].vector.tier

\* C27: a retrieve whose top_k is at least the number of chunks stored so
\* far returns every chunk handed to an earlier store_document call.
C27_StoredChunksRetrievable ==
    (last.op = "retrieve" /\ ~last.raised /\ last.top_k >= Len(handed)) =>
        \A i \in 1..Len(handed) :
            \E j \in 1..Len(last.result) : last.result[j].text = handed[i].text

\* C29: a connected instance stays connected, and each of its
\* store_document and retrieve calls is sent to the backing store: the
\* fallback storage is written or read only after the call's own upsert or
\* search has been made and has failed.
C29_ConnectedStaysConnected ==
    [][client = "Client" => (client' = "Client" /\ last'.clientCalls = 1)]_vars


(***************************************************************************)
(* Separator priority of split_text.                                       *)
(***************************************************************************)
\* the positions p > s at which the k-th separator occurs wholly inside the
\* window [s, e)
WindowHits(t, k, s, e) ==
    LET sep == DefaultSeparators[k]
    IN  IF sep = <<>> THEN {}
        ELSE {p \in (s + 1)..(e - Len(sep)) : MatchAt(t, sep, p)}

\* the separators that occur in the window [s, e) at a position after s
UsableSeparators(t, s, e) ==
    {k \in 1..Len(DefaultSeparators) : WindowHits(t, k, s, e) # {}}

\* C25: a slice whose candidate end start + chunk_size lies before the end of
\* the text is cut after the rightmost occurrence, inside the window, of the
\* first separator in priority order that occurs at a position strictly
\* greater than start; a lower-priority separator is used only when no
\* higher-priority one occurs there, and when none occurs the slice is cut
\* at start + chunk_size.
C25_CutAtFirstSeparatorInPriority ==
    \A i \in 1..Len(slices) :
        LET s == slices[i].start
            e == s + chunk_size
            usable == UsableSeparators(text, s, e)
        IN  e < Len(text) =>
               IF usable = {} THEN slices[i].end = e
               ELSE LET k == CHOOSE j \in usable : \A l \in usable : j <= l
                    IN  slices[i].end =
                            SetMax(WindowHits(text, k, s, e))
                                + Len(DefaultSeparators[k])

\* a slice cut after a line break although a space, a separator of lower
\* priority, occurs further right in the same window
C25_Witness ==
    \E i \in 1..Len(slices) :
        LET s == slices[i].start
            e == s + chunk_size
        IN  /\ e < Len(text)
            /\ WindowHits(text, 2, s, e) # {}
            /\ WindowHits(text, 6, s, e) # {}
            /\ SetMax(WindowHits(text, 6, s, e))
                   > SetMax(WindowHits(text, 2, s, e))
            /\ slices[i].end = SetMax(WindowHits(text, 2, s, e)) + 1


(***************************************************************************)
(* Properties of split_text_to_chunks.                                     *)
(***************************************************************************)
\* the whitespace-separated words of the chunks cs, read in order
RECURSIVE WordsOfChunks(_)
WordsOfChunks(cs) ==
    IF cs = <<>> THEN <<>>
    ELSE SplitWords(Head(cs), <<>>) \o WordsOfChunks(Tail(cs))

\* the word list of each paragraph of the text t
ParagraphWords(t) ==
    LET paras == SplitParagraphs(t, <<>>)
    IN  [k \in 1..Len(paras) |-> SplitWords(paras[k], <<>>)]

\* the chunks cs, in order, use up the word lists wls, in order, and every
\* chunk takes its words from one list only
RECURSIVE WithinParagraphs(_, _)
WithinParagraphs(cs, wls) ==
    IF wls = <<>> THEN cs = <<>>
    ELSE IF Head(wls) = <<>> THEN WithinParagraphs(cs, Tail(wls))
    ELSE IF cs = <<>> THEN FALSE
    ELSE LET w    == SplitWords(Head(cs), <<>>)
             rest == Head(wls)
         IN  /\ w # <<>>
             /\ Len(w) <= Len(rest)
             /\ w = SubSeq(rest, 1, Len(w))
             /\ WithinParagraphs(Tail(cs),
                                 <<SubSeq(rest, Len(w) + 1, Len(rest))>> \o Tail(wls))

\* C30: split_text_to_chunks partitions the word sequence of the text: the
\* whitespace-separated words of the returned chunks, read in order, are the
\* whitespace-separated words of the input, every chunk holds between 1 and
\* max_tokens words, and no chunk holds words of two paragraphs.
C30_ChunksPartitionWords ==
    ckPc = "done" =>
        /\ WordsOfChunks(ckChunks) = SplitWords(ckText, <<>>)
        /\ \A i \in 1..Len(ckChunks) :
              /\ Len(SplitWords(ckChunks[i], <<>>)) >= 1
              /\ Len(SplitWords(ckChunks[i], <<>>)) <= ckMaxTokens
        /\ WithinParagraphs(ckChunks, ParagraphWords(ckText))

\* a returned call on a text of two paragraphs with words, one of which has
\* more than max_tokens words and was cut into several chunks
C30_Witness ==
    /\ ckPc = "done"
    /\ ckText # <<"a", " ", "b", "\n", "\n", "c", "\n">>
    /\ LET pw == ParagraphWords(ckText)
       IN  /\ Cardinality({k \in 1..Len(pw) : pw[k] # <<>>}) >= 2
           /\ \E k \in 1..Len(pw) : Len(pw[k]) > ckMaxTokens
           /\ Len(ckChunks) > Cardinality({k \in 1..Len(pw) : pw[k] # <<>>})

=============================================================================
